---- MODULE Spec2Model ----
(***************************************************************************)
(* ScalpEngine (src/src/ScalpEngine.js): the sell-only pullback scalper.   *)
(*                                                                         *)
(* Units.  Prices, ATR and EMA values are integers in hundredths of a      *)
(* price unit; R multiples (rPnL, totalR) are integers in hundredths of R; *)
(* timestamps are integers in milliseconds since the epoch, as in the      *)
(* source.  RSI, stochastic and confidence values are integers.            *)
(*                                                                         *)
(* The indicator library (technicalindicators: EMA, RSI, ATR, Stochastic,  *)
(* ADX, MACD) is not part of the repository.  Its outputs are inputs of    *)
(* the call that consults it, drawn from small sets of snapshots; the      *)
(* code that reads those outputs is modelled as written.                   *)
(***************************************************************************)
EXTENDS Integers, Sequences, FiniteSets, TLC

VARIABLES
    candles1m,      \* this.candles1m     { symbol: [...] }
    candles5m,      \* this.candles5m
    candles1h,      \* this.candles1h
    openTrade,      \* this.openTrade     { symbol: tradeObj | null }
    lastSignalTs,   \* this.lastSignalTs  { symbol: timestamp }
    stats,          \* this.stats
    now,            \* the wall clock, Date.now()
    ret,            \* the last engine call: its name, arguments and result
    lastSell,       \* history: symbol -> timestamp of its latest SELL result
    cadence,        \* history: symbol -> k when the open trade has had exactly
                    \*   k resolve calls, the j-th at age j minutes; -1 otherwise
    outcomes        \* history: number of outcomes resolveOpenTrade returned

vars == <<candles1m, candles5m, candles1h, openTrade, lastSignalTs, stats,
          now, ret, lastSell, cadence, outcomes>>

engine == <<candles1m, candles5m, candles1h, openTrade, lastSignalTs, stats>>

-----------------------------------------------------------------------------
(* SCALP_CONFIG and the literals of the source *)

RR == 180                 \* RR: 1.8, in hundredths
ATR_MUL == 100            \* ATR_MUL: 1.0, in hundredths
MAX_PB_ATR == 40          \* MAX_PB_ATR: 0.4, in hundredths
MIN_CONF == 65
MAX_HOLD == 20
COOLDOWN == 5
HOUR_START == 12
HOUR_END == 13
LOSS_R == -100            \* rPnL of a LOSS: -1
EXPIRED_R == -15          \* rPnL of an EXPIRED trade: -0.15
CAP_1M == 100             \* candles.slice(-100), length > 100
CAP_5M == 80              \* candles.slice(-80), length > 80
CAP_1H == 100             \* candles.slice(-100)
MIN_1H == 55              \* c1h.length < 55
MIN_5M == 55              \* c5.length < 55
MIN_1M == 30              \* c1.length < 30
MIN_ATR == 30             \* atrVal < 0.3, in hundredths
MS_PER_MIN == 60000       \* the 60000 of cooldownMs and ageMin

MsPerHour == 60 * MS_PER_MIN
MsPerDay == 24 * MsPerHour

-----------------------------------------------------------------------------
(* Bounds of the model *)

MaxClosed == 2            \* no new SELL once this many trades were closed
MaxPushed == 31           \* push1mCandle calls of SpecPush
MaxClockMin == 20         \* the clock stops this many minutes after the session opens

-----------------------------------------------------------------------------
(* Inputs *)

Symbols == {"XAU/USD"}

BasePrice == 100 * 100

\* Session open on Thursday 1 January 1970, 12:00 UTC
SessionOpen == HOUR_START * MsPerHour

\* A candle; the source reads c.close || c.c, c.high || c.h, c.low || c.l and
\* the host fills both spellings with the same positive number.
Bar(k) == [high |-> BasePrice + 10 * k + 20,
           low |-> BasePrice + 10 * k - 20,
           close |-> BasePrice + 10 * k]

\* A chronologically ordered series of n candles falling to BasePrice
Feed(n) == [i \in 1..n |-> Bar(n - i)]

Get(map, key, default) == IF key \in DOMAIN map THEN map[key] ELSE default

Put(map, key, value) ==
    [k \in DOMAIN map \cup {key} |-> IF k = key THEN value ELSE map[k]]

Last(seq) == seq[Len(seq)]

\* Array.prototype.slice(-cap)
SliceLast(seq, cap) ==
    IF Len(seq) <= cap THEN seq ELSE SubSeq(seq, Len(seq) - cap + 1, Len(seq))

Null == [action |-> "null"]

NoBySymbol == [s \in {} |-> [wins |-> 0, losses |-> 0, totalR |-> 0]]

\* The fields of ret that a call does not set.  lib, sig and failed are set by
\* calls that return a setup: the 1m snapshot read, the setup, and whether
\* any indicator computation of the call failed.
NoRet == [op |-> "none", symbol |-> "", ts |-> 0, candle |-> Bar(0),
          given |-> <<>>,
          action |-> "", reason |-> "", rPnL |-> 0, closePrice |-> 0,
          trade |-> Null, macro |-> "", trend5m |-> "", setup |-> "",
          lib |-> [ok |-> FALSE, consulted |-> FALSE], sig |-> Null,
          failed |-> FALSE, closed |-> 0, winRate |-> [kind |-> "", value |-> 0],
          profitFactor |-> [kind |-> "", value |-> 0]]

-----------------------------------------------------------------------------
(* constructor *)

Init ==
    /\ candles1m = [s \in {} |-> <<>>]
    /\ candles5m = [s \in {} |-> <<>>]
    /\ candles1h = [s \in {} |-> <<>>]
    /\ openTrade = [s \in {} |-> Null]
    /\ lastSignalTs = [s \in {} |-> 0]
    /\ stats = [wins |-> 0, losses |-> 0, expired |-> 0, totalR |-> 0,
                bySymbol |-> NoBySymbol]
    /\ now = SessionOpen - COOLDOWN * MS_PER_MIN
    /\ ret = NoRet
    /\ lastSell = [s \in {} |-> 0]
    /\ cadence = [s \in {} |-> 0]
    /\ outcomes = 0

-----------------------------------------------------------------------------
(* load1mCandles, load5mCandles, load1hCandles *)

\* load1mCandles that resets the open-trade slot of every symbol
load1mCandles_ResetAll(symbol, candles) ==
    /\ candles1m' = Put(candles1m, symbol, SliceLast(candles, CAP_1M))
    /\ openTrade' = [s \in DOMAIN openTrade \cup {symbol} |-> Null]
    /\ lastSignalTs' = Put(lastSignalTs, symbol, 0)
    /\ stats' = IF symbol \in DOMAIN stats.bySymbol
                THEN stats
                ELSE [stats EXCEPT !.bySymbol =
                        Put(@, symbol, [wins |-> 0, losses |-> 0, totalR |-> 0])]
    /\ ret' = [NoRet EXCEPT !.op = "load1mCandles", !.symbol = symbol,
                            !.given = candles]
    /\ UNCHANGED <<candles5m, candles1h, now, lastSell, cadence, outcomes>>

load1mCandles(symbol, candles) ==
    /\ candles1m' = Put(candles1m, symbol, SliceLast(candles, CAP_1M))
    /\ openTrade' = Put(openTrade, symbol, Null)
    /\ lastSignalTs' = Put(lastSignalTs, symbol, 0)
    /\ stats' = IF symbol \in DOMAIN stats.bySymbol
                THEN stats
                ELSE [stats EXCEPT !.bySymbol =
                        Put(@, symbol, [wins |-> 0, losses |-> 0, totalR |-> 0])]
    /\ ret' = [NoRet EXCEPT !.op = "load1mCandles", !.symbol = symbol,
                            !.given = candles]
    /\ UNCHANGED <<candles5m, candles1h, now, lastSell, cadence, outcomes>>

load5mCandles(symbol, candles) ==
    /\ candles5m' = Put(candles5m, symbol, SliceLast(candles, CAP_5M))
    /\ ret' = [NoRet EXCEPT !.op = "load5mCandles", !.symbol = symbol,
                            !.given = candles]
    /\ UNCHANGED <<candles1m, candles1h, openTrade, lastSignalTs, stats, now,
                   lastSell, cadence, outcomes>>

load1hCandles(symbol, candles) ==
    /\ candles1h' = Put(candles1h, symbol, SliceLast(candles, CAP_1H))
    /\ ret' = [NoRet EXCEPT !.op = "load1hCandles", !.symbol = symbol,
                            !.given = candles]
    /\ UNCHANGED <<candles1m, candles5m, openTrade, lastSignalTs, stats, now,
                   lastSell, cadence, outcomes>>

-----------------------------------------------------------------------------
(* push1mCandle, push5mCandle *)

\* push without the shift
PushShift_NoShift(buffer, candle, cap) == Append(buffer, candle)

\* push, then pop instead of shift
PushShift_Pop(buffer, candle, cap) ==
    LET appended == Append(buffer, candle)
    IN  IF Len(appended) > cap THEN SubSeq(appended, 1, cap) ELSE appended

\* push, then shift when the length exceeds the capacity
PushShift(buffer, candle, cap) ==
    LET appended == Append(buffer, candle)
    IN  IF Len(appended) > cap THEN Tail(appended) ELSE appended

push1mCandle(symbol, candle) ==
    /\ candles1m' = Put(candles1m, symbol,
                        PushShift(Get(candles1m, symbol, <<>>), candle, CAP_1M))
    /\ ret' = [NoRet EXCEPT !.op = "push1mCandle", !.symbol = symbol,
                            !.candle = candle]
    /\ UNCHANGED <<candles5m, candles1h, openTrade, lastSignalTs, stats, now,
                   lastSell, cadence, outcomes>>

push5mCandle(symbol, candle) ==
    /\ candles5m' = Put(candles5m, symbol,
                        PushShift(Get(candles5m, symbol, <<>>), candle, CAP_5M))
    /\ ret' = [NoRet EXCEPT !.op = "push5mCandle", !.symbol = symbol,
                            !.candle = candle]
    /\ UNCHANGED <<candles1m, candles1h, openTrade, lastSignalTs, stats, now,
                   lastSell, cadence, outcomes>>

-----------------------------------------------------------------------------
(* isScalpSession *)

UTCHours(ts) == (ts \div MsPerHour) % 24

\* getUTCDay: 0 is Sunday; 1 January 1970 was a Thursday
UTCDay(ts) == ((ts \div MsPerDay) + 4) % 7

\* isScalpSession without the weekend line
isScalpSession_NoWeekend(ts) ==
    LET hour == UTCHours(ts)
        day == UTCDay(ts)
    IN  IF day = 1 /\ hour < 10 THEN FALSE
        ELSE IF day = 5 /\ hour >= HOUR_END THEN FALSE
        ELSE hour >= HOUR_START /\ hour < HOUR_END

\* isScalpSession with hour <= HOUR_END
isScalpSession_LateEnd(ts) ==
    LET hour == UTCHours(ts)
        day == UTCDay(ts)
    IN  IF day = 0 \/ day = 6 THEN FALSE
        ELSE IF day = 1 /\ hour < 10 THEN FALSE
        ELSE IF day = 5 /\ hour >= HOUR_END THEN FALSE
        ELSE hour >= HOUR_START /\ hour <= HOUR_END

isScalpSession(ts) ==
    LET hour == UTCHours(ts)
        day == UTCDay(ts)
    IN  IF day = 0 \/ day = 6 THEN FALSE
        ELSE IF day = 1 /\ hour < 10 THEN FALSE
        ELSE IF day = 5 /\ hour >= HOUR_END THEN FALSE
        ELSE hour >= HOUR_START /\ hour < HOUR_END

-----------------------------------------------------------------------------
(* The indicator library's answers.  ok = FALSE is a call that throws or   *)
(* returns an empty series; otherwise the fields are the last elements of  *)
(* the series the source reads.                                            *)

NotConsulted == [ok |-> FALSE, consulted |-> FALSE]

\* EMA21, EMA50 and ADX(14) of the 1h series
Lib1h ==
    { [ok |-> TRUE, consulted |-> TRUE, e21 |-> BasePrice - 100,
       e50 |-> BasePrice - 200, adx |-> 30],
      [ok |-> TRUE, consulted |-> TRUE, e21 |-> BasePrice + 100,
       e50 |-> BasePrice + 200, adx |-> 30],
      [ok |-> TRUE, consulted |-> TRUE, e21 |-> BasePrice - 100,
       e50 |-> BasePrice - 200, adx |-> 19],
      [ok |-> FALSE, consulted |-> TRUE] }

\* EMA9, EMA21, EMA50 and ADX(14) of the 5m series
Lib5m ==
    { [ok |-> TRUE, consulted |-> TRUE, e9 |-> BasePrice + 50,
       e21 |-> BasePrice + 100, e50 |-> BasePrice + 200, adx |-> 25],
      [ok |-> TRUE, consulted |-> TRUE, e9 |-> BasePrice + 50,
       e21 |-> BasePrice + 100, e50 |-> BasePrice + 200, adx |-> 24],
      [ok |-> TRUE, consulted |-> TRUE, e9 |-> BasePrice + 50,
       e21 |-> BasePrice + 100, e50 |-> BasePrice + 100, adx |-> 30],
      [ok |-> FALSE, consulted |-> TRUE] }

\* EMA8, EMA21, RSI(7), ATR(7), Stochastic(5,3) and MACD(5,13,4) of the 1m
\* series: the last two elements of each (stoch and macd may be shorter)
GoodSetup ==
    [ok |-> TRUE, consulted |-> TRUE,
     e8 |-> BasePrice + 30, e8Prev |-> BasePrice + 40,
     e21 |-> BasePrice + 85, e21Prev |-> BasePrice + 90,
     rsiVal |-> 62, rsiPrev |-> 70, atrVal |-> 50,
     stoch |-> << [k |-> 80, d |-> 75], [k |-> 60, d |-> 70] >>,
     macd |-> << -2, -5 >>]

Lib1m ==
    { GoodSetup,
      [GoodSetup EXCEPT !.atrVal = 100],
      \* passes every gate with no bonus but the two slopes and the stochastic
      [GoodSetup EXCEPT !.e21 = BasePrice + 70, !.e21Prev = BasePrice + 75,
                        !.rsiVal = 40, !.rsiPrev = 45,
                        !.stoch = << [k |-> 50, d |-> 60], [k |-> 40, d |-> 50] >>,
                        !.macd = << 3, 1 >>],
      [ok |-> FALSE, consulted |-> TRUE] }

-----------------------------------------------------------------------------
(* get1hMacro, get5mTrend *)

get1hMacro(symbol, lib) ==
    LET c1h == Get(candles1h, symbol, <<>>)
    IN  IF Len(c1h) < MIN_1H THEN "NEUTRAL"
        ELSE IF ~lib.ok THEN "NEUTRAL"
        ELSE LET price == Last(c1h).close
             IN  IF lib.adx < 20 THEN "NEUTRAL"
                 ELSE IF lib.e21 > lib.e50 /\ price > lib.e21 THEN "BULLISH"
                 ELSE IF lib.e21 < lib.e50 /\ price < lib.e21 THEN "BEARISH"
                 ELSE "NEUTRAL"

\* get5mTrend without the test of the last close against EMA9
get5mTrend_NoPrice(symbol, lib) ==
    LET c5 == Get(candles5m, symbol, <<>>)
    IN  IF Len(c5) < MIN_5M THEN "NEUTRAL"
        ELSE IF ~lib.ok THEN "NEUTRAL"
        ELSE IF /\ lib.e9 < lib.e21
                /\ lib.e21 < lib.e50
                /\ lib.adx >= 25
             THEN "BEARISH"
             ELSE "NEUTRAL"

get5mTrend(symbol, lib) ==
    LET c5 == Get(candles5m, symbol, <<>>)
    IN  IF Len(c5) < MIN_5M THEN "NEUTRAL"
        ELSE IF ~lib.ok THEN "NEUTRAL"
        ELSE LET p == Last(c5).close
             IN  IF /\ lib.e9 < lib.e21
                    /\ lib.e21 < lib.e50
                    /\ p < lib.e9
                    /\ lib.adx >= 25
                 THEN "BEARISH"
                 ELSE "NEUTRAL"

-----------------------------------------------------------------------------
(* getSellSignal *)

Abs(x) == IF x < 0 THEN -x ELSE x

Min(a, b) == IF a < b THEN a ELSE b

MaxOf(S) == CHOOSE x \in S : \A y \in S : y <= x

\* Math.max over the highs of c1.slice(-8, -1)
PullbackHigh(c1) ==
    MaxOf({ c1[i].high : i \in (Len(c1) - 7)..(Len(c1) - 1) })

\* distToEMA without Math.abs
DistToEMA_Signed(c1, lib) == PullbackHigh(c1) - lib.e21

DistToEMA(c1, lib) == Abs(PullbackHigh(c1) - lib.e21)

\* The stochastic rejections without the %K / %D comparison
StochGate_LevelOnly(stochCur, stochPrev) == ~(stochCur.k < 25)

\* Lines 185-186: TRUE when neither rejects
StochGate(stochCur, stochPrev) ==
    /\ ~(stochCur.k < 25)
    /\ ~(stochCur.k >= stochCur.d /\ stochPrev.k >= stochPrev.d)

\* The rejections between the ATR floor and the MACD gate: TRUE when the
\* series passes them all
SetupGates(c1, lib) ==
    LET price == c1[Len(c1)].close
        prevPrice == c1[Len(c1) - 1].close
        pullbackHigh == PullbackHigh(c1)
        distToEMA == DistToEMA(c1, lib)
    IN  /\ ~(lib.atrVal = 0 \/ lib.atrVal < MIN_ATR)
        /\ ~(100 * distToEMA > lib.atrVal * MAX_PB_ATR)
        /\ ~(pullbackHigh > lib.e21 + lib.atrVal)
        /\ ~(price >= lib.e8)
        /\ ~(price >= prevPrice)
        /\ ~(lib.rsiVal < 35)
        /\ ~(lib.rsiVal >= lib.rsiPrev)
        /\ ~(lib.e21 >= lib.e21Prev)
        /\ ~(lib.e8 >= lib.e8Prev)
        /\ Len(lib.stoch) >= 2
        /\ LET stochCur == lib.stoch[Len(lib.stoch)]
               stochPrev == lib.stoch[Len(lib.stoch) - 1]
           IN  StochGate(stochCur, stochPrev)
        /\ Len(lib.macd) >= 1
        /\ LET macdCur == lib.macd[Len(lib.macd)]
           IN  ~(/\ macdCur > 0
                 /\ \/ Len(lib.macd) < 2
                    \/ macdCur >= lib.macd[Len(lib.macd) - 1])

\* conf before the cap: 50 plus the bonuses of lines 195-216
Score(c1, lib) ==
    LET distToEMA == DistToEMA(c1, lib)
        stochCur == lib.stoch[Len(lib.stoch)]
        stochPrev == lib.stoch[Len(lib.stoch) - 1]
        macdCur == lib.macd[Len(lib.macd)]
        pullback == IF 100 * distToEMA < lib.atrVal * 15 THEN 20
                    ELSE IF 100 * distToEMA < lib.atrVal * 30 THEN 12
                    ELSE IF 100 * distToEMA < lib.atrVal * 40 THEN 5
                    ELSE 0
        rsi == IF lib.rsiVal > 60 /\ lib.rsiVal < lib.rsiPrev THEN 12
               ELSE IF lib.rsiVal > 50 THEN 6
               ELSE 0
        cross == IF stochCur.k < stochCur.d /\ stochPrev.k >= stochPrev.d THEN 12
                 ELSE IF stochCur.k < stochCur.d THEN 5
                 ELSE 0
        zone == IF stochCur.k > 65 /\ stochCur.k < stochCur.d THEN 5 ELSE 0
        macdNeg == IF macdCur < 0 THEN 8 ELSE 0
        macdAcc == IF /\ macdCur < 0
                      /\ Len(lib.macd) >= 2
                      /\ macdCur < lib.macd[Len(lib.macd) - 1]
                   THEN 6 ELSE 0
        slope21 == IF lib.e21 < lib.e21Prev THEN 5 ELSE 0
        slope8 == IF lib.e8 < lib.e8Prev THEN 4 ELSE 0
    IN  50 + pullback + rsi + cross + zone + macdNeg + macdAcc
           + slope21 + slope8

\* conf without Math.min(conf, 95)
Confidence_NoCap(c1, lib) == Score(c1, lib)

\* The confidence score of a series that passed the gates
Confidence(c1, lib) == Min(Score(c1, lib), 95)

\* sl = price + atrVal * ATR_MUL
StopLoss(price, atrVal) == price + (atrVal * ATR_MUL) \div 100

\* tp on the wrong side of the price: price + risk * RR
TakeProfit_Above(price, risk) == price + (risk * RR) \div 100

\* tp = price - risk * RR
TakeProfit(price, risk) == price - (risk * RR) \div 100

\* The object getSellSignal returns, or Null.  risk * RR is exact for the ATR
\* values of Lib1m (multiples of 0.05).
getSellSignal(symbol, lib) ==
    LET c1 == Get(candles1m, symbol, <<>>)
    IN  IF Len(c1) < MIN_1M THEN Null
        ELSE IF ~lib.ok THEN Null
        ELSE IF ~SetupGates(c1, lib) THEN Null
        ELSE IF Confidence(c1, lib) < MIN_CONF THEN Null
        ELSE LET price == Last(c1).close
                 sl == StopLoss(price, lib.atrVal)
                 risk == Abs(price - sl)
                 tp == TakeProfit(price, risk)
             IN  IF risk <= 0 \/ risk > lib.atrVal * 3 THEN Null
                 ELSE [action |-> "SELL",
                       confidence |-> Confidence(c1, lib),
                       price |-> price, sl |-> sl, tp |-> tp, risk |-> risk,
                       atr |-> lib.atrVal,
                       pullbackHigh |-> PullbackHigh(c1),
                       ema21 |-> lib.e21, rsi |-> lib.rsiVal,
                       stochK |-> lib.stoch[Len(lib.stoch)].k,
                       macdHist |-> lib.macd[Len(lib.macd)]]

-----------------------------------------------------------------------------
(* resolveOpenTrade, _recordResult *)

\* resolveOpenTrade with the target checked before the stop
ResolveOutcome_TargetFirst(trade, newCandle, clock) ==
    IF newCandle.low <= trade.tp THEN "WIN"
    ELSE IF newCandle.high >= trade.sl THEN "LOSS"
    ELSE IF clock - trade.openTime >= MAX_HOLD * MS_PER_MIN THEN "EXPIRED"
    ELSE "null"

\* resolveOpenTrade with the age divided by 1000 instead of 60000
ResolveOutcome_Seconds(trade, newCandle, clock) ==
    IF newCandle.high >= trade.sl THEN "LOSS"
    ELSE IF newCandle.low <= trade.tp THEN "WIN"
    ELSE IF clock - trade.openTime >= MAX_HOLD * 1000 THEN "EXPIRED"
    ELSE "null"

\* resolveOpenTrade with ageMin > MAX_HOLD
ResolveOutcome_Late(trade, newCandle, clock) ==
    IF newCandle.high >= trade.sl THEN "LOSS"
    ELSE IF newCandle.low <= trade.tp THEN "WIN"
    ELSE IF clock - trade.openTime > MAX_HOLD * MS_PER_MIN THEN "EXPIRED"
    ELSE "null"

\* The branch resolveOpenTrade takes for an open trade
ResolveOutcome(trade, newCandle, clock) ==
    IF newCandle.high >= trade.sl THEN "LOSS"
    ELSE IF newCandle.low <= trade.tp THEN "WIN"
    ELSE IF clock - trade.openTime >= MAX_HOLD * MS_PER_MIN THEN "EXPIRED"
    ELSE "null"

OutcomeR(outcome) ==
    CASE outcome = "LOSS" -> LOSS_R
      [] outcome = "WIN" -> RR
      [] outcome = "EXPIRED" -> EXPIRED_R

OutcomeClose(trade, newCandle, outcome) ==
    CASE outcome = "LOSS" -> trade.sl
      [] outcome = "WIN" -> trade.tp
      [] outcome = "EXPIRED" -> newCandle.close

\* _recordResult reads this.stats.bySymbol[symbol] for WIN and LOSS only:
\* a TypeError when load1mCandles never created the entry
RecordThrows(symbol, outcome) ==
    outcome \in {"WIN", "LOSS"} /\ symbol \notin DOMAIN stats.bySymbol

\* this.stats after _recordResult; when it throws, the global counter and
\* totalR are already updated
RecordResult(symbol, outcome, rPnL) ==
    LET global == CASE outcome = "WIN" ->
                         [stats EXCEPT !.wins = @ + 1, !.totalR = @ + rPnL]
                    [] outcome = "LOSS" ->
                         [stats EXCEPT !.losses = @ + 1, !.totalR = @ + rPnL]
                    [] OTHER ->
                         [stats EXCEPT !.expired = @ + 1, !.totalR = @ + rPnL]
    IN  IF outcome = "WIN" /\ symbol \in DOMAIN stats.bySymbol
        THEN [global EXCEPT !.bySymbol[symbol].wins = @ + 1,
                            !.bySymbol[symbol].totalR = @ + rPnL]
        ELSE IF outcome = "LOSS" /\ symbol \in DOMAIN stats.bySymbol
        THEN [global EXCEPT !.bySymbol[symbol].losses = @ + 1,
                            !.bySymbol[symbol].totalR = @ + rPnL]
        ELSE global

resolveOpenTrade(symbol, newCandle) ==
    LET trade == Get(openTrade, symbol, Null)
        call == [NoRet EXCEPT !.op = "resolveOpenTrade", !.symbol = symbol,
                              !.candle = newCandle]
    IN  IF trade = Null
        THEN /\ ret' = [call EXCEPT !.action = "null"]
             /\ UNCHANGED <<candles1m, candles5m, candles1h, openTrade,
                            lastSignalTs, stats, now, lastSell, cadence,
                            outcomes>>
        ELSE LET outcome == ResolveOutcome(trade, newCandle, now)
                 k == Get(cadence, symbol, -1)
             IN  /\ cadence' = Put(cadence, symbol,
                        IF k >= 0 /\ now - trade.openTime = (k + 1) * MS_PER_MIN
                        THEN k + 1 ELSE -1)
                 /\ IF outcome = "null"
                    THEN /\ ret' = [call EXCEPT !.action = "null"]
                         /\ UNCHANGED <<openTrade, stats, outcomes>>
                    ELSE /\ openTrade' = Put(openTrade, symbol, Null)
                         /\ stats' = RecordResult(symbol, outcome, OutcomeR(outcome))
                         /\ IF RecordThrows(symbol, outcome)
                            THEN /\ ret' = [call EXCEPT !.action = "throw"]
                                 /\ UNCHANGED outcomes
                            ELSE /\ ret' = [call EXCEPT
                                        !.action = outcome,
                                        !.rPnL = OutcomeR(outcome),
                                        !.closePrice =
                                            OutcomeClose(trade, newCandle, outcome),
                                        !.trade = trade]
                                 /\ outcomes' = outcomes + 1
                 /\ UNCHANGED <<candles1m, candles5m, candles1h, lastSignalTs,
                                now, lastSell>>

-----------------------------------------------------------------------------
(* generateSignal *)

\* 2. Cooldown check
InCooldown(symbol, ts) ==
    ts - Get(lastSignalTs, symbol, 0) < COOLDOWN * MS_PER_MIN

\* generateSignal without step 3
HasOpenTrade_Never(symbol) == FALSE

\* 3. Already in trade for this symbol
HasOpenTrade(symbol) == Get(openTrade, symbol, Null) # Null

\* The library is consulted only for a series that is long enough
Consult(buffer, symbol, minLen, answers) ==
    IF Len(Get(buffer, symbol, <<>>)) < minLen THEN {NotConsulted} ELSE answers

\* The library was consulted and threw or returned an empty series
Failed(lib) == lib.consulted /\ ~lib.ok

\* A HOLD that stamps the symbol's last-signal timestamp
HoldEffect_Stamp(symbol, ts) ==
    /\ lastSignalTs' = Put(lastSignalTs, symbol, ts)
    /\ UNCHANGED <<candles1m, candles5m, candles1h, openTrade, stats>>

\* What a HOLD return does to the engine: nothing
HoldEffect(symbol, ts) ==
    UNCHANGED <<candles1m, candles5m, candles1h, openTrade, lastSignalTs, stats>>

Hold(symbol, ts, reason, macro, trend) ==
    /\ ret' = [NoRet EXCEPT !.op = "generateSignal", !.symbol = symbol,
                            !.ts = ts, !.action = "HOLD", !.reason = reason,
                            !.macro = macro, !.trend5m = trend,
                            !.setup = IF reason = "setup" THEN "none" ELSE ""]
    /\ HoldEffect(symbol, ts)
    /\ UNCHANGED <<now, lastSell, cadence, outcomes>>

\* 7. Fire signal - store as open trade
NewTrade(symbol, currentPrice, ts, sig) ==
    [symbol |-> symbol, action |-> "SELL", entryPrice |-> currentPrice,
     sl |-> sig.sl, tp |-> sig.tp, risk |-> sig.risk, rr |-> RR,
     confidence |-> sig.confidence, atr |-> sig.atr, openTime |-> ts]

Fire(symbol, currentPrice, ts, sig, lib, failed, macro, trend) ==
    LET trade == NewTrade(symbol, currentPrice, ts, sig)
    IN  /\ openTrade' = Put(openTrade, symbol, trade)
        /\ lastSignalTs' = Put(lastSignalTs, symbol, ts)
        /\ ret' = [NoRet EXCEPT !.op = "generateSignal", !.symbol = symbol,
                                !.ts = ts, !.action = "SELL", !.trade = trade,
                                !.macro = macro, !.trend5m = trend,
                                !.setup = "found", !.sig = sig,
                                !.lib = lib, !.failed = failed]
        /\ lastSell' = Put(lastSell, symbol, ts)
        /\ cadence' = Put(cadence, symbol, 0)
        /\ UNCHANGED <<candles1m, candles5m, candles1h, stats, now, outcomes>>

\* generateSignal without the macro block
MacroBlocks_Never(macro) == FALSE

\* 4. 1h MACRO FILTER: block SELL if macro is BULLISH
MacroBlocks(macro) == macro = "BULLISH"

\* 5. 5min trend
TrendBlocks(trend) == trend # "BEARISH"

\* generateSignal, the library answering the 1m series with one of answers1m
generateSignalWith(symbol, currentPrice, ts, answers1m) ==
    IF ~isScalpSession(ts) THEN Hold(symbol, ts, "session", "", "")
    ELSE IF InCooldown(symbol, ts) THEN Hold(symbol, ts, "cooldown", "", "")
    ELSE IF HasOpenTrade(symbol) THEN Hold(symbol, ts, "open trade", "", "")
    ELSE \E l1h \in Consult(candles1h, symbol, MIN_1H, Lib1h) :
        LET macro == get1hMacro(symbol, l1h)
        IN  IF MacroBlocks(macro) THEN Hold(symbol, ts, "macro", macro, "")
            ELSE \E l5 \in Consult(candles5m, symbol, MIN_5M, Lib5m) :
                LET trend == get5mTrend(symbol, l5)
                IN  IF TrendBlocks(trend)
                    THEN Hold(symbol, ts, "trend", macro, trend)
                    ELSE \E l1 \in Consult(candles1m, symbol, MIN_1M,
                                            answers1m) :
                        LET sig == getSellSignal(symbol, l1)
                        IN  IF sig = Null
                            THEN Hold(symbol, ts, "setup", macro, trend)
                            ELSE Fire(symbol, currentPrice, ts, sig, l1,
                                      Failed(l1h) \/ Failed(l5)
                                          \/ Failed(l1),
                                      macro, trend)

generateSignal(symbol, currentPrice, ts) ==
    generateSignalWith(symbol, currentPrice, ts, Lib1m)

-----------------------------------------------------------------------------
(* getStats *)

Closed == stats.wins + stats.losses

\* Number.prototype.toFixed: num / den rounded to the nearest unit
ToFixed(num, den) == (2 * num + den) \div (2 * den)

\* wr, in tenths of a percent: the string '0' when nothing was closed
WinRate ==
    IF Closed > 0
    THEN [kind |-> "toFixed", value |-> ToFixed(stats.wins * 1000, Closed)]
    ELSE [kind |-> "0", value |-> 0]

\* pf computed without the losses > 0 test: 0 / 0 is NaN, n / 0 is Infinity
ProfitFactor_Unguarded ==
    IF stats.losses > 0
    THEN [kind |-> "toFixed", value |-> ToFixed(stats.wins * RR, stats.losses)]
    ELSE IF stats.wins > 0 THEN [kind |-> "Infinity", value |-> 0]
    ELSE [kind |-> "NaN", value |-> 0]

\* pf, in hundredths: the string of the infinity sign when there is no loss
ProfitFactor ==
    IF stats.losses > 0
    THEN [kind |-> "toFixed", value |-> ToFixed(stats.wins * RR, stats.losses)]
    ELSE [kind |-> "infinity sign", value |-> 0]

getStats ==
    /\ ret' = [NoRet EXCEPT !.op = "getStats", !.action = "stats",
                            !.closed = Closed, !.winRate = WinRate,
                            !.profitFactor = ProfitFactor]
    /\ UNCHANGED <<candles1m, candles5m, candles1h, openTrade, lastSignalTs,
                   stats, now, lastSell, cadence, outcomes>>

-----------------------------------------------------------------------------
(* The wall clock *)

Tick(minutes) ==
    /\ now + minutes * MS_PER_MIN <= SessionOpen + MaxClockMin * MS_PER_MIN
    /\ now' = now + minutes * MS_PER_MIN
    /\ ret' = [NoRet EXCEPT !.op = "tick"]
    /\ UNCHANGED <<candles1m, candles5m, candles1h, openTrade, lastSignalTs,
                   stats, lastSell, cadence, outcomes>>

-----------------------------------------------------------------------------
(* The calls a host makes *)

Feeds1m == {Feed(MIN_1M)}
Feeds5m == {Feed(MIN_5M)}
Feeds1h == {Feed(MIN_1H)}

Prices == {BasePrice, BasePrice + 200}

\* Candles offered to resolveOpenTrade: one that touches neither the stop
\* nor the target of a trade opened at BasePrice, one that touches the stop,
\* one that touches the target, one that touches both
QuietCandle == Bar(0)
StopCandle ==
    [high |-> BasePrice + 100, low |-> BasePrice - 20, close |-> BasePrice + 90]
TargetCandle ==
    [high |-> BasePrice + 20, low |-> BasePrice - 180, close |-> BasePrice - 170]
BothCandle ==
    [high |-> BasePrice + 100, low |-> BasePrice - 180, close |-> BasePrice]

ResolveCandles == {QuietCandle, StopCandle, TargetCandle, BothCandle}

\* Date.now() (the default), 12:04, 13:00, a Saturday noon
SignalTimes == {now, SessionOpen + (COOLDOWN - 1) * MS_PER_MIN,
                SessionOpen + MsPerHour,
                SessionOpen + 2 * MsPerDay}

Load1m == \E s \in Symbols, f \in Feeds1m : load1mCandles(s, f)
Load5m == \E s \in Symbols, f \in Feeds5m : load5mCandles(s, f)
Load1h == \E s \in Symbols, f \in Feeds1h : load1hCandles(s, f)
Resolve == \E s \in Symbols, c \in ResolveCandles : resolveOpenTrade(s, c)
Generate == \E s \in Symbols, p \in Prices, ts \in SignalTimes :
                /\ generateSignal(s, p, ts)
                /\ ret'.action = "SELL" =>
                       stats.wins + stats.losses + stats.expired < MaxClosed
GetStats == getStats
Clock == Tick(COOLDOWN)

Next ==
    \/ Load1m
    \/ Load5m
    \/ Load1h
    \/ Resolve
    \/ Generate
    \/ GetStats
    \/ Clock

Spec == Init /\ [][Next]_vars

-----------------------------------------------------------------------------
(* A host that polls once a minute: the clock advances minute by minute,   *)
(* the signal is asked for at Date.now().                                  *)

MinuteClock == Tick(1)
ResolveMinute ==
    \E s \in Symbols, c \in {QuietCandle, StopCandle} : resolveOpenTrade(s, c)
GenerateNow ==
    \E s \in Symbols :
        /\ generateSignal(s, BasePrice, now)
        /\ ret'.action = "SELL" =>
               stats.wins + stats.losses + stats.expired < MaxClosed

NextHold ==
    \/ Load1m
    \/ Load5m
    \/ ResolveMinute
    \/ GenerateNow
    \/ MinuteClock

SpecHold == Init /\ [][NextHold]_vars

-----------------------------------------------------------------------------
(* A host that feeds the 1m series candle by candle through push1mCandle,  *)
(* with or without a load1mCandles warm-up.                                *)

\* The next candle of a falling market: ten hundredths below the latest one
NextCandle(buffer) ==
    IF buffer = <<>> THEN Bar(MIN_1M)
    ELSE [high |-> Last(buffer).high - 10,
          low |-> Last(buffer).low - 10,
          close |-> Last(buffer).close - 10]

Push1m ==
    \E s \in Symbols :
        /\ Len(Get(candles1m, s, <<>>)) < MaxPushed
        /\ push1mCandle(s, NextCandle(Get(candles1m, s, <<>>)))

NextPush ==
    \/ Push1m
    \/ Load1m
    \/ Load5m
    \/ Resolve
    \/ Generate
    \/ Clock

SpecPush == Init /\ [][NextPush]_vars

-----------------------------------------------------------------------------
(* isScalpSession asked about the first and the last millisecond of every  *)
(* hour of the weeks that start on Thursday 1 January 1970, 00:00 UTC.     *)

MaxHours == 168

SessionTimes ==
    { h * MsPerHour + offset : h \in 0..(MaxHours - 1),
                               offset \in {0, MsPerHour - 1} }

SessionCheck ==
    \E ts \in SessionTimes :
        /\ ret' = [NoRet EXCEPT !.op = "isScalpSession", !.ts = ts,
                       !.action = IF isScalpSession(ts) THEN "true" ELSE "false"]
        /\ UNCHANGED <<candles1m, candles5m, candles1h, openTrade,
                       lastSignalTs, stats, now, lastSell, cadence, outcomes>>

NextSession == SessionCheck

SpecSession == Init /\ [][NextSession]_vars

-----------------------------------------------------------------------------
(* A host that loads series one candle shorter and one candle longer than  *)
(* the capacities and then pushes candles of a falling market.             *)

MaxOver == 2              \* pushes go on until the close is this many steps below BasePrice

LongFeeds(cap) == {Feed(cap - 1), Feed(cap + 1)}

\* The market has not yet fallen MaxOver candles below BasePrice
MayPush(buffer) ==
    IF buffer = <<>> THEN TRUE
    ELSE Last(buffer).close > BasePrice - 10 * MaxOver

LoadLong1m == \E s \in Symbols, f \in LongFeeds(CAP_1M) : load1mCandles(s, f)
LoadLong5m == \E s \in Symbols, f \in LongFeeds(CAP_5M) : load5mCandles(s, f)
LoadLong1h == \E s \in Symbols, f \in LongFeeds(CAP_1H) : load1hCandles(s, f)

PushOver1m ==
    \E s \in Symbols :
        /\ MayPush(Get(candles1m, s, <<>>))
        /\ push1mCandle(s, NextCandle(Get(candles1m, s, <<>>)))

PushOver5m ==
    \E s \in Symbols :
        /\ MayPush(Get(candles5m, s, <<>>))
        /\ push5mCandle(s, NextCandle(Get(candles5m, s, <<>>)))

NextBuffer ==
    \/ LoadLong1m
    \/ LoadLong5m
    \/ LoadLong1h
    \/ PushOver1m
    \/ PushOver5m

SpecBuffer == Init /\ [][NextBuffer]_vars

-----------------------------------------------------------------------------
(* getSellSignal, and then generateSignal, called on the loaded 1m series   *)
(* with the indicator values drawn from a grid around each gate and each   *)
(* confidence bonus.  For                                                  *)
(* Feed(MIN_1M) the latest close is BasePrice, the one before is           *)
(* BasePrice + 10 and the highest high of the seven bars before the        *)
(* current one is BasePrice + 90.                                          *)

\* EMA21, current and previous: the pullback high is 5 above it, on it, 10
\* below it, 30 above it, 40 below it; the last one does not slope down
Ema21s ==
    { [cur |-> BasePrice + 85, prev |-> BasePrice + 90],
      [cur |-> BasePrice + 90, prev |-> BasePrice + 95],
      [cur |-> BasePrice + 100, prev |-> BasePrice + 105],
      [cur |-> BasePrice + 60, prev |-> BasePrice + 65],
      [cur |-> BasePrice + 130, prev |-> BasePrice + 135],
      [cur |-> BasePrice + 85, prev |-> BasePrice + 85] }

\* ATR(7): below the floor, on the floor, 0.50, 1.00
Atrs == {20, 30, 50, 100}

\* RSI(7), current and previous
Rsis ==
    { [cur |-> 62, prev |-> 70],
      [cur |-> 40, prev |-> 45],
      [cur |-> 30, prev |-> 45],
      [cur |-> 55, prev |-> 50] }

\* Stochastic, previous and current bar: a fresh bearish cross, already
\* bearish, a bullish cross, bullish on both bars, %K below 25, %K = %D after
\* a bearish bar, bearish in the overbought zone, a one-element series
Stochs ==
    { << [k |-> 80, d |-> 75], [k |-> 60, d |-> 70] >>,
      << [k |-> 50, d |-> 60], [k |-> 40, d |-> 50] >>,
      << [k |-> 50, d |-> 60], [k |-> 70, d |-> 65] >>,
      << [k |-> 80, d |-> 75], [k |-> 70, d |-> 65] >>,
      << [k |-> 50, d |-> 60], [k |-> 20, d |-> 30] >>,
      << [k |-> 50, d |-> 60], [k |-> 60, d |-> 60] >>,
      << [k |-> 70, d |-> 80], [k |-> 68, d |-> 75] >>,
      << [k |-> 60, d |-> 70] >> }

\* MACD histogram, previous and current bar
Macds == { << -2, -5 >>, << -5, -2 >>, << 3, 1 >>, << 1, 3 >>, << -3 >>, << >> }

SetupLibs ==
    { [ok |-> TRUE, consulted |-> TRUE,
       e8 |-> BasePrice + 30, e8Prev |-> BasePrice + 40,
       e21 |-> e.cur, e21Prev |-> e.prev,
       rsiVal |-> r.cur, rsiPrev |-> r.prev, atrVal |-> a,
       stoch |-> st, macd |-> m] :
          e \in Ema21s, r \in Rsis, a \in Atrs, st \in Stochs, m \in Macds }
    \cup { [ok |-> FALSE, consulted |-> TRUE] }

\* The engine after load1mCandles and load5mCandles for every symbol, at
\* 12:04 UTC, with the answers the library will give for the 1m series (the
\* library is a pure function of the series, which no action here changes)
\* held in ret.lib.  A 1m series one candle short is never shown to it.
InitSetup ==
    \E f \in {Feed(MIN_1M), Feed(MIN_1M - 1)} :
        \E lib \in IF Len(f) < MIN_1M THEN {NotConsulted} ELSE SetupLibs :
            /\ candles1m = [s \in Symbols |-> f]
            /\ candles5m = [s \in Symbols |-> Feed(MIN_5M)]
            /\ candles1h = [s \in {} |-> <<>>]
            /\ openTrade = [s \in Symbols |-> Null]
            /\ lastSignalTs = [s \in Symbols |-> 0]
            /\ stats = [wins |-> 0, losses |-> 0, expired |-> 0, totalR |-> 0,
                        bySymbol |-> [s \in Symbols |->
                            [wins |-> 0, losses |-> 0, totalR |-> 0]]]
            /\ now = SessionOpen + (COOLDOWN - 1) * MS_PER_MIN
            /\ ret = [NoRet EXCEPT !.op = "load5mCandles", !.lib = lib]
            /\ lastSell = [s \in {} |-> 0]
            /\ cadence = [s \in {} |-> 0]
            /\ outcomes = 0

GetSellSignal ==
    \E s \in Symbols :
        LET lib == ret.lib
            sig == getSellSignal(s, lib)
        IN  /\ ret.op = "load5mCandles"
            /\ ret' = [NoRet EXCEPT !.op = "getSellSignal", !.symbol = s,
                           !.lib = lib, !.sig = sig, !.failed = Failed(lib),
                           !.setup = IF sig = Null THEN "none" ELSE "found"]
            /\ UNCHANGED <<candles1m, candles5m, candles1h, openTrade,
                           lastSignalTs, stats, now, lastSell, cadence,
                           outcomes>>

GenerateSetup ==
    \E s \in Symbols, p \in Prices :
        /\ ret.op = "getSellSignal"
        /\ generateSignalWith(s, p, now, {ret.lib})

NextSetup ==
    \/ GetSellSignal
    \/ GenerateSetup

SpecSetup == InitSetup /\ [][NextSetup]_vars

-----------------------------------------------------------------------------
(* The host's polling callback: once a minute, for the symbol, it fetches  *)
(* the latest 1-minute candles and calls load1mCandles, load5mCandles when *)
(* the last refresh is older than four minutes, resolveOpenTrade with the  *)
(* latest candle and generateSignal with its close at Date.now(). The last *)
(* call made (ret.op) is the callback's position.                          *)

\* What fetchLatest1m returns: candles ending in a quiet bar, in a bar that
\* reaches the stop or in a bar that reaches the target
FeedEnding(c) == [i \in 1..MIN_1M |-> IF i = MIN_1M THEN c ELSE Bar(MIN_1M - i)]
PollFeeds == {FeedEnding(QuietCandle), FeedEnding(StopCandle),
              FeedEnding(TargetCandle)}

PollLoad1m ==
    \E s \in Symbols, f \in PollFeeds :
        /\ ret.op \in {"none", "tick"}
        /\ load1mCandles(s, f)
\* the refresh of the 5-minute buffer runs on some ticks only
PollLoad5m ==
    \E s \in Symbols, f \in Feeds5m :
        /\ ret.op = "load1mCandles"
        /\ load5mCandles(s, f)
PollResolve ==
    \E s \in Symbols :
        /\ ret.op \in {"load1mCandles", "load5mCandles"}
        /\ resolveOpenTrade(s, Last(candles1m[s]))
PollGenerate ==
    \E s \in Symbols :
        /\ ret.op = "resolveOpenTrade"
        /\ generateSignal(s, Last(candles1m[s]).close, now)
\* the next callback runs 60 seconds later; a callback outside the fetch
\* hours, or whose fetch fails, calls nothing
PollSleep ==
    /\ ret.op \in {"none", "tick", "generateSignal"}
    /\ Tick(1)

NextPoll ==
    \/ PollLoad1m
    \/ PollLoad5m
    \/ PollResolve
    \/ PollGenerate
    \/ PollSleep

SpecPoll == Init /\ [][NextPoll]_vars

-----------------------------------------------------------------------------
(* get5mTrend as a function of the 5-minute buffer and the library's       *)
(* answers for it.                                                         *)

\* EMA9, EMA21 and EMA50 of the 5m closes around a last close of BasePrice,
\* and ADX(14) below, on and above the threshold
TrendEma9s == {BasePrice - 10, BasePrice, BasePrice + 50}
TrendEma21s == {BasePrice + 40, BasePrice + 50, BasePrice + 100}
TrendEma50s == {BasePrice + 90, BasePrice + 100, BasePrice + 200}
TrendAdxs == {24, 25, 30}

TrendLibs ==
    { [ok |-> TRUE, consulted |-> TRUE, e9 |-> a, e21 |-> b, e50 |-> c,
       adx |-> x] :
          a \in TrendEma9s, b \in TrendEma21s, c \in TrendEma50s,
          x \in TrendAdxs }
    \cup { [ok |-> FALSE, consulted |-> TRUE] }

\* The engine after load5mCandles for every symbol, with the answers the
\* library will give for the 5m series held in ret.lib.  A series one candle
\* short is never shown to it.
InitTrend ==
    \E f \in {Feed(MIN_5M), Feed(MIN_5M - 1)} :
        \E lib \in IF Len(f) < MIN_5M THEN {NotConsulted} ELSE TrendLibs :
            /\ candles1m = [s \in {} |-> <<>>]
            /\ candles5m = [s \in Symbols |-> f]
            /\ candles1h = [s \in {} |-> <<>>]
            /\ openTrade = [s \in {} |-> Null]
            /\ lastSignalTs = [s \in {} |-> 0]
            /\ stats = [wins |-> 0, losses |-> 0, expired |-> 0, totalR |-> 0,
                        bySymbol |-> NoBySymbol]
            /\ now = SessionOpen
            /\ ret = [NoRet EXCEPT !.op = "load5mCandles", !.lib = lib]
            /\ lastSell = [s \in {} |-> 0]
            /\ cadence = [s \in {} |-> 0]
            /\ outcomes = 0

Get5mTrend ==
    \E s \in Symbols :
        /\ ret.op = "load5mCandles"
        /\ ret' = [NoRet EXCEPT !.op = "get5mTrend", !.symbol = s,
                       !.lib = ret.lib, !.failed = Failed(ret.lib),
                       !.trend5m = get5mTrend(s, ret.lib)]
        /\ UNCHANGED <<candles1m, candles5m, candles1h, openTrade,
                       lastSignalTs, stats, now, lastSell, cadence, outcomes>>

NextTrend == Get5mTrend

SpecTrend == InitTrend /\ [][NextTrend]_vars

-----------------------------------------------------------------------------
(* Two symbols in one engine: every operation is called for either symbol, *)
(* in any order, at 12:04 UTC.                                             *)

Pair == {"XAU/USD", "EUR/USD"}

MaxPairClosed == 2        \* trades closed over both symbols before the last SELL

\* push is called once on a buffer as load left it
JustLoaded(buffer, symbol, feeds) == Get(buffer, symbol, <<>>) \in feeds

PairLoad1m == \E s \in Pair, f \in Feeds1m : load1mCandles(s, f)
PairLoad5m == \E s \in Pair, f \in Feeds5m : load5mCandles(s, f)
\* a 1h series too short for the macro filter
PairLoad1h == \E s \in Pair : load1hCandles(s, Feed(MIN_1H - 1))
PairPush1m ==
    \E s \in Pair :
        /\ JustLoaded(candles1m, s, Feeds1m)
        /\ push1mCandle(s, NextCandle(candles1m[s]))
PairPush5m ==
    \E s \in Pair :
        /\ JustLoaded(candles5m, s, Feeds5m)
        /\ push5mCandle(s, NextCandle(candles5m[s]))
\* the bar offered reaches the stop
PairResolve == \E s \in Pair : resolveOpenTrade(s, StopCandle)
PairGenerate ==
    \E s \in Pair :
        /\ generateSignalWith(s, BasePrice,
                              SessionOpen + (COOLDOWN - 1) * MS_PER_MIN,
                              {GoodSetup})
        /\ ret'.action = "SELL" =>
               stats.wins + stats.losses + stats.expired < MaxPairClosed

NextPair ==
    \/ PairLoad1m
    \/ PairLoad5m
    \/ PairLoad1h
    \/ PairPush1m
    \/ PairPush5m
    \/ PairResolve
    \/ PairGenerate

SpecPair == Init /\ [][NextPair]_vars

-----------------------------------------------------------------------------
(* Properties *)

Open(s) == Get(openTrade, s, Null) # Null

Outcomes == {"LOSS", "WIN", "EXPIRED"}

CooldownMs == COOLDOWN * MS_PER_MIN

\* C1: while a trade is open for a symbol, generateSignal for that symbol
\* returns HOLD and leaves the open trade as it is, so the symbol's slot never
\* holds a second trade.
C1_HoldWhileOpen ==
    [][\A s \in Symbols :
          (Open(s) /\ ret'.op = "generateSignal" /\ ret'.symbol = s)
              => (ret'.action = "HOLD" /\ openTrade'[s] = openTrade[s])]_vars

C1_Witness ==
    /\ ret.op = "generateSignal"
    /\ ret.action = "HOLD"
    /\ ret.reason = "open trade"
    /\ Open(ret.symbol)

\* C2: an open trade stays the same open trade in every step that is not a
\* resolveOpenTrade call for its symbol returning LOSS, WIN or EXPIRED.
C2_OpenUntilOutcome ==
    [][\A s \in Symbols :
          (Open(s) /\ ~(/\ ret'.op = "resolveOpenTrade"
                        /\ ret'.symbol = s
                        /\ ret'.action \in Outcomes))
              => (s \in DOMAIN openTrade' /\ openTrade'[s] = openTrade[s])]_vars

\* C3: after a SELL for a symbol at timestamp t, every generateSignal for
\* that symbol with a timestamp in [t, t + cooldown) returns HOLD.
C3_CooldownBetweenSells ==
    [][\A s \in DOMAIN lastSell :
          (/\ ret'.op = "generateSignal"
           /\ ret'.symbol = s
           /\ ret'.ts >= lastSell[s]
           /\ ret'.ts < lastSell[s] + CooldownMs)
              => ret'.action = "HOLD"]_vars

\* Monday to Friday, UTC hour 12
InWindow(ts) == UTCDay(ts) \in 1..5 /\ UTCHours(ts) = 12

\* C4: generateSignal for a timestamp outside Monday..Friday 12:00-13:00 UTC
\* returns HOLD with the outside-session reason and creates no trade.
C4_NoSellOutsideSession ==
    [][(ret'.op = "generateSignal" /\ ~InWindow(ret'.ts))
          => (/\ ret'.action = "HOLD"
              /\ ret'.reason = "session"
              /\ openTrade' = openTrade)]_vars

C4_Witness ==
    /\ ret.op = "generateSignal"
    /\ UTCDay(ret.ts) = 6
    /\ UTCHours(ret.ts) = 12
    /\ ret.action = "HOLD"
    /\ ret.reason = "session"
    /\ Len(Get(candles1m, ret.symbol, <<>>)) >= MIN_1M
    /\ Len(Get(candles5m, ret.symbol, <<>>)) >= MIN_5M
    /\ ~Open(ret.symbol)

\* C5: a candle with high >= stopLoss and low <= takeProfit closes the trade
\* on the stop: the loss counter moves, the win counter does not, and the
\* outcome returned is LOSS with realizedR = -1 and closePrice = stopLoss.
C5_StopBeforeTarget ==
    [][\A s \in Symbols :
          (/\ Open(s)
           /\ ret'.op = "resolveOpenTrade"
           /\ ret'.symbol = s
           /\ ret'.candle.high >= openTrade[s].sl
           /\ ret'.candle.low <= openTrade[s].tp)
              => (/\ ret'.action # "WIN"
                  /\ stats'.wins = stats.wins
                  /\ stats'.losses = stats.losses + 1
                  /\ ~Open(s)'
                  /\ ret'.action # "throw" =>
                       (/\ ret'.action = "LOSS"
                        /\ ret'.rPnL = LOSS_R
                        /\ ret'.closePrice = openTrade[s].sl))]_vars

C5_Witness ==
    /\ ret.op = "resolveOpenTrade"
    /\ ret.action = "LOSS"
    /\ ret.candle.high >= ret.trade.sl
    /\ ret.candle.low <= ret.trade.tp
    /\ ret.closePrice = ret.trade.sl

\* The candle touches neither the stop nor the target of the trade
Untouched(trade, candle) == candle.high < trade.sl /\ candle.low > trade.tp

\* The k-th resolveOpenTrade call for the open trade of s arrives k minutes
\* after it opened, as did every call before it, with stop and target untouched
OnCadence(s) ==
    /\ Open(s)
    /\ ret'.op = "resolveOpenTrade"
    /\ ret'.symbol = s
    /\ cadence'[s] >= 1
    /\ Untouched(openTrade[s], ret'.candle)

\* C6 as stated: with one resolveOpenTrade call per minute and stop and target
\* never touched, the first 20 calls report still open and the 21st returns
\* EXPIRED.
C6_ExpiredAtCall21 ==
    [][\A s \in Symbols :
          OnCadence(s) =>
              IF cadence'[s] <= MAX_HOLD
              THEN ret'.action = "null" /\ openTrade'[s] = openTrade[s]
              ELSE ret'.action = "EXPIRED"]_vars

\* C6 as amended: with one resolveOpenTrade call per minute and stop and
\* target never touched, the first 19 calls report still open and the 20th
\* returns EXPIRED with realizedR = -0.15 and closePrice = the candle's close.
C6_ExpiredAtCall20 ==
    [][\A s \in Symbols :
          OnCadence(s) =>
              IF cadence'[s] < MAX_HOLD
              THEN ret'.action = "null" /\ openTrade'[s] = openTrade[s]
              ELSE /\ cadence'[s] = MAX_HOLD
                   /\ ret'.action = "EXPIRED"
                   /\ ret'.rPnL = EXPIRED_R
                   /\ ret'.closePrice = ret'.candle.close
                   /\ ~Open(s)']_vars

C6_Witness ==
    /\ ret.op = "resolveOpenTrade"
    /\ ret.action = "EXPIRED"
    /\ cadence[ret.symbol] = MAX_HOLD
    /\ now - ret.trade.openTime = MAX_HOLD * MS_PER_MIN

\* C7: every open trade has stopLoss > entryPrice > takeProfit and
\* riskDistance = stopLoss - entryPrice > 0.
C7_TradeGeometry ==
    \A s \in Symbols :
        Open(s) =>
            LET t == openTrade[s]
            IN  /\ t.sl > t.entryPrice
                /\ t.entryPrice > t.tp
                /\ t.risk = t.sl - t.entryPrice
                /\ t.risk > 0

\* C8: generateSignal returns SELL and opens the trade exactly when the
\* session gate admits ts, the cooldown has elapsed, no trade is open, the 1h
\* macro trend is not BULLISH, the 5m trend is BEARISH and getSellSignal
\* yields a setup; otherwise it returns HOLD.
C8_SellIffAllGates ==
    [][\A s \in Symbols :
          (ret'.op = "generateSignal" /\ ret'.symbol = s) =>
              /\ ret'.action \in {"SELL", "HOLD"}
              /\ ret'.action = "SELL" <=>
                     /\ isScalpSession(ret'.ts)
                     /\ ret'.ts - Get(lastSignalTs, s, 0) >= CooldownMs
                     /\ ~Open(s)
                     /\ ret'.macro \in {"NEUTRAL", "BEARISH"}
                     /\ ret'.trend5m = "BEARISH"
                     /\ ret'.setup = "found"
              /\ ret'.action = "SELL" =>
                     /\ Open(s)'
                     /\ openTrade'[s] = ret'.trade
                     /\ lastSignalTs'[s] = ret'.ts
              /\ ret'.action = "HOLD" =>
                     ret'.reason \in {"session", "cooldown", "open trade",
                                      "macro", "trend", "setup"}]_vars

C8_Witness ==
    /\ ret.op = "generateSignal"
    /\ ret.action = "SELL"
    /\ ret.macro = "BEARISH"
    /\ ret.trend5m = "BEARISH"
    /\ Open(ret.symbol)
    /\ openTrade[ret.symbol].openTime = ret.ts

\* C9: a generateSignal call that returns HOLD changes nothing in the engine:
\* candle buffers, open trade, last-signal timestamp and stats stay as they
\* were.
C9_HoldChangesNothing ==
    [][(ret'.op = "generateSignal" /\ ret'.action = "HOLD")
          => UNCHANGED engine]_vars

C9_Witness ==
    /\ ret.op = "generateSignal"
    /\ ret.action = "HOLD"
    /\ ret.reason = "setup"
    /\ ret.trend5m = "BEARISH"

\* C10: after any sequence of operations, wins + losses + expired equals the
\* number of outcomes resolveOpenTrade returned.
C10_CountersMatchOutcomes ==
    stats.wins + stats.losses + stats.expired = outcomes

\* C11: getStats always returns a result and changes nothing in the engine;
\* when losses = 0 (with wins > 0, or with nothing but EXPIRED outcomes, or
\* with nothing closed) profitFactor is the infinity sentinel, never NaN or a
\* division result; when wins + losses = 0 winRate is 0; otherwise both are
\* the rounded quotients.
C11_StatsSentinels ==
    [][ret'.op = "getStats" =>
          /\ ret'.action = "stats"
          /\ UNCHANGED engine
          /\ ret'.closed = stats.wins + stats.losses
          /\ ret'.profitFactor.kind \in {"infinity sign", "toFixed"}
          /\ ret'.winRate.kind \in {"0", "toFixed"}
          /\ stats.losses = 0 <=> ret'.profitFactor.kind = "infinity sign"
          /\ stats.wins + stats.losses = 0 =>
                 (ret'.winRate.kind = "0" /\ ret'.winRate.value = 0)
          /\ stats.wins + stats.losses > 0 =>
                 /\ ret'.winRate.kind = "toFixed"
                 /\ ret'.winRate.value \in 0..1000
          /\ stats.losses > 0 =>
                 ret'.profitFactor.value * stats.losses
                     \in (stats.wins * RR - stats.losses)
                           ..(stats.wins * RR + stats.losses)]_vars

C11_Witness ==
    /\ ret.op = "getStats"
    /\ stats.losses = 0
    /\ stats.wins + stats.expired > 0
    /\ ret.profitFactor.kind = "infinity sign"

\* C12: every generateSignal call returns HOLD or SELL and every
\* resolveOpenTrade call returns null (none) or an outcome, never an
\* exception, whichever feeding calls came before; a resolveOpenTrade call
\* empties the trade slot exactly when it returns an outcome, and then the
\* symbol's own counters exist and moved with the global ones.
C12_NoException ==
    [][\A s \in Symbols :
          /\ (ret'.op = "generateSignal" /\ ret'.symbol = s) =>
                 ret'.action \in {"HOLD", "SELL"}
          /\ (ret'.op = "resolveOpenTrade" /\ ret'.symbol = s) =>
                 /\ ret'.action \in {"null"} \cup Outcomes
                 /\ (Open(s) /\ ~Open(s)') <=> ret'.action \in Outcomes
                 /\ ret'.action \in {"WIN", "LOSS"} =>
                        /\ s \in DOMAIN stats.bySymbol
                        /\ stats'.bySymbol[s].wins + stats'.bySymbol[s].losses
                           = stats.bySymbol[s].wins + stats.bySymbol[s].losses
                             + 1]_vars

\* C13: generateSignal returns SELL only when the symbol has at least 55
\* 1-hour candles, at least 55 5-minute candles and at least 30 1-minute
\* candles and no indicator computation of the call failed.
C13_SellNeedsAllData ==
    [][\A s \in Symbols :
          (ret'.op = "generateSignal" /\ ret'.symbol = s
                                      /\ ret'.action = "SELL") =>
              /\ Len(Get(candles1h, s, <<>>)) >= MIN_1H
              /\ Len(Get(candles5m, s, <<>>)) >= MIN_5M
              /\ Len(Get(candles1m, s, <<>>)) >= MIN_1M
              /\ ~ret'.failed]_vars

\* C14: isScalpSession(ts) is true if and only if the UTC weekday of ts is
\* Monday..Friday and its UTC hour is at least 12 and below 13; no Monday or
\* Friday timestamp outside that hour is admitted.
C14_SessionIffWindow ==
    ret.op = "isScalpSession" =>
        LET day == (ret.ts \div (24 * 3600000) + 4) % 7
            msOfDay == ret.ts % (24 * 3600000)
        IN  ret.action = "true" <=>
                /\ day \in 1..5
                /\ msOfDay >= 12 * 3600000
                /\ msOfDay < 13 * 3600000

C14_Witness ==
    /\ ret.op = "isScalpSession"
    /\ ret.action = "true"
    /\ UTCDay(ret.ts) = 5
    /\ ret.ts % MsPerHour = MsPerHour - 1

\* C15: in every reachable state each symbol's 1-minute buffer holds at most
\* 100 candles, its 5-minute buffer at most 80 and its 1-hour buffer at most
\* 100.
C15_BufferCapacities ==
    /\ \A s \in DOMAIN candles1m : Len(candles1m[s]) <= 100
    /\ \A s \in DOMAIN candles5m : Len(candles5m[s]) <= 80
    /\ \A s \in DOMAIN candles1h : Len(candles1h[s]) <= 100

\* A push onto a full 5-minute buffer that was loaded from a longer series,
\* beside a full 1-minute and a full 1-hour buffer
C15_Witness ==
    /\ ret.op = "push5mCandle"
    /\ Len(candles5m[ret.symbol]) = 80
    /\ candles5m[ret.symbol][1].close < Feed(80)[1].close
    /\ Last(candles5m[ret.symbol]) = ret.candle
    /\ Len(Get(candles1m, ret.symbol, <<>>)) = 100
    /\ Len(Get(candles1h, ret.symbol, <<>>)) = 100

\* The setup returned by the last getSellSignal or generateSignal call
Emitted == ret.op \in {"getSellSignal", "generateSignal"} /\ ret.sig # Null

\* C16: every setup has price = the latest 1-minute close, stopLoss = price +
\* 1.0 x ATR, riskDistance = stopLoss - price = ATR with 0 < riskDistance <=
\* 3 x ATR, takeProfit = price - 1.8 x riskDistance, and so stopLoss > price >
\* takeProfit.
C16_SetupLevels ==
    Emitted =>
        LET sig == ret.sig
            c1 == candles1m[ret.symbol]
            atr == ret.lib.atrVal
        IN  /\ sig.price = c1[Len(c1)].close
            /\ sig.atr = atr
            /\ sig.sl = sig.price + atr
            /\ sig.risk = sig.sl - sig.price
            /\ sig.risk = atr
            /\ 0 < sig.risk
            /\ sig.risk <= 3 * atr
            /\ 10 * sig.tp = 10 * sig.price - 18 * sig.risk
            /\ sig.sl > sig.price
            /\ sig.price > sig.tp

C16_Witness ==
    /\ ret.op = "getSellSignal"
    /\ ret.sig # Null
    /\ ret.lib.atrVal = 30
    /\ ret.sig.sl = BasePrice + 30
    /\ ret.sig.tp = BasePrice - 54

\* The bonuses of the confidence score, for the indicator values the last
\* call read: pullback proximity to EMA21, RSI, stochastic cross, overbought
\* zone, MACD histogram, EMA slopes
C17_Bonuses ==
    LET lib == ret.lib
        c1 == candles1m[ret.symbol]
        highs == { c1[i].high : i \in (Len(c1) - 7)..(Len(c1) - 1) }
        high == CHOOSE h \in highs : \A g \in highs : g <= h
        dist == IF high >= lib.e21 THEN high - lib.e21 ELSE lib.e21 - high
        cur == lib.stoch[Len(lib.stoch)]
        prev == lib.stoch[Len(lib.stoch) - 1]
        hist == lib.macd[Len(lib.macd)]
        proximity == IF 100 * dist < 15 * lib.atrVal THEN 20
                     ELSE IF 100 * dist < 30 * lib.atrVal THEN 12
                     ELSE IF 100 * dist < 40 * lib.atrVal THEN 5
                     ELSE 0
        rsi == IF lib.rsiVal > 60 /\ lib.rsiVal < lib.rsiPrev THEN 12
               ELSE IF lib.rsiVal > 50 THEN 6
               ELSE 0
        bearish == cur.k < cur.d
        cross == IF bearish /\ prev.k >= prev.d THEN 12
                 ELSE IF bearish THEN 5
                 ELSE 0
        zone == IF cur.k > 65 /\ bearish THEN 5 ELSE 0
        negative == IF hist < 0 THEN 8 ELSE 0
        accelerating == IF hist < 0 /\ Len(lib.macd) >= 2
                           /\ hist < lib.macd[Len(lib.macd) - 1]
                        THEN 6 ELSE 0
        slopes == (IF lib.e21 < lib.e21Prev THEN 5 ELSE 0)
                  + (IF lib.e8 < lib.e8Prev THEN 4 ELSE 0)
    IN  proximity + rsi + cross + zone + negative + accelerating + slopes

\* C17: every setup has confidence = min(95, 50 + the bonuses that fired),
\* between 65 and 95; the trade of a SELL carries the confidence of its setup;
\* indicator values whose score is below 65 yield no setup.
C17_ConfidenceScore ==
    /\ Emitted =>
           /\ ret.sig.confidence
                  = (IF 50 + C17_Bonuses > 95 THEN 95 ELSE 50 + C17_Bonuses)
           /\ ret.sig.confidence >= 65
           /\ ret.sig.confidence <= 95
    /\ (ret.op = "generateSignal" /\ ret.action = "SELL") =>
           /\ ret.sig # Null
           /\ ret.trade.confidence = ret.sig.confidence
    /\ (/\ ret.op = "getSellSignal"
        /\ ret.lib.ok
        /\ Len(ret.lib.stoch) >= 2
        /\ Len(ret.lib.macd) >= 1
        /\ 50 + C17_Bonuses < 65) => ret.sig = Null

\* A SELL whose score of 50 plus bonuses was above the cap
C17_Witness ==
    /\ ret.op = "generateSignal"
    /\ ret.action = "SELL"
    /\ 50 + C17_Bonuses > 95
    /\ ret.trade.confidence = 95

\* The highest high of the 7 bars before the current bar of the series the
\* last call read
HighBefore ==
    LET c1 == candles1m[ret.symbol]
        highs == { c1[i].high : i \in (Len(c1) - 7)..(Len(c1) - 1) }
    IN  CHOOSE h \in highs : \A g \in highs : g <= h

C19_StochasticBearish ==
    Emitted =>
        LET cur == ret.lib.stoch[Len(ret.lib.stoch)]
        IN  /\ Len(ret.lib.stoch) >= 2
            /\ cur.k >= 25
            /\ cur.k < cur.d

\* C19 as amended: a setup is emitted only if the current stochastic %K is at
\* least 25 and %K is below %D on the current bar or on the previous bar; two
\* bars in a row with %K at or above %D yield no setup.
C19_StochasticNotBullishTwice ==
    Emitted =>
        LET cur == ret.lib.stoch[Len(ret.lib.stoch)]
            prev == ret.lib.stoch[Len(ret.lib.stoch) - 1]
        IN  /\ Len(ret.lib.stoch) >= 2
            /\ cur.k >= 25
            /\ cur.k < cur.d \/ prev.k < prev.d

\* A setup on a bar whose %K crossed above %D
C19_Witness ==
    /\ ret.op = "getSellSignal"
    /\ ret.sig # Null
    /\ ret.lib.stoch[2].k > ret.lib.stoch[2].d
    /\ ret.lib.stoch[1].k < ret.lib.stoch[1].d

\* C20: a resolveOpenTrade call for a symbol with an open trade returns WIN
\* exactly when the candle's low <= takeProfit and its high < stopLoss; the
\* outcome then has realizedR = 1.8, the trade's rewardRiskRatio, and
\* closePrice = takeProfit, and the symbol has no open trade; with no open
\* trade the call never returns WIN.
C20_WinOnTarget ==
    [][\A s \in Symbols :
          (ret'.op = "resolveOpenTrade" /\ ret'.symbol = s) =>
              /\ ret'.action = "WIN" <=>
                     /\ Open(s)
                     /\ ret'.candle.low <= openTrade[s].tp
                     /\ ret'.candle.high < openTrade[s].sl
              /\ ret'.action = "WIN" =>
                     /\ ret'.rPnL = 180
                     /\ ret'.rPnL = openTrade[s].rr
                     /\ ret'.closePrice = openTrade[s].tp
                     /\ ~Open(s)']_vars

\* C21: a resolveOpenTrade call for a symbol with no open trade, or with an
\* open trade whose stop and target the candle does not touch and whose age
\* is below 20 minutes, reports no outcome and leaves the open trade, the
\* last-signal timestamp and the global and per-symbol stats (and the candle
\* buffers) as they were; so does every call that reports no outcome.
C21_NoOutcomeNoChange ==
    [][\A s \in Symbols :
          (ret'.op = "resolveOpenTrade" /\ ret'.symbol = s) =>
              /\ (\/ ~Open(s)
                  \/ /\ Untouched(openTrade[s], ret'.candle)
                     /\ now - openTrade[s].openTime < 20 * 60000)
                     => ret'.action = "null"
              /\ ret'.action = "null" =>
                     /\ openTrade' = openTrade
                     /\ lastSignalTs' = lastSignalTs
                     /\ stats' = stats
                     /\ UNCHANGED <<candles1m, candles5m, candles1h>>]_vars

\* A still-open report for a trade that is 5 to 15 minutes old, with a closed
\* trade already counted
C21_Witness ==
    /\ ret.op = "resolveOpenTrade"
    /\ ret.action = "null"
    /\ Open(ret.symbol)
    /\ now - openTrade[ret.symbol].openTime > 0
    /\ stats.wins + stats.losses + stats.expired > 0

\* C22: in the polling loop, a trade that generateSignal opened in one tick
\* is still open, unchanged, when the next tick (one minute later) calls
\* resolveOpenTrade for that symbol.
C22_OpenAtNextTick ==
    [][\A s \in DOMAIN lastSell :
          (/\ ret'.op = "resolveOpenTrade"
           /\ ret'.symbol = s
           /\ now - lastSell[s] = MS_PER_MIN)
              => /\ Open(s)
                 /\ openTrade[s].openTime = lastSell[s]]_vars

\* The buffer after a push of candle onto old: one longer with candle last
\* below capacity; at capacity, old without its first candle, then candle
PushedOnto(old, new, candle, cap) ==
    IF Len(old) < cap
    THEN new = Append(old, candle)
    ELSE /\ Len(new) = cap
         /\ \A i \in 1..(cap - 1) : new[i] = old[i + 1]
         /\ new[cap] = candle

\* The buffer after a load of given: its last cap candles, in order
LoadedFrom(given, new, cap) ==
    /\ Len(new) = Min(Len(given), cap)
    /\ \A i \in 1..Len(new) : new[i] = given[Len(given) - Len(new) + i]

\* C23: a push onto a buffer at capacity removes exactly the oldest candle
\* and puts the new one last, the others keeping their order (below capacity
\* it only appends); a load leaves exactly the last capacity candles of the
\* supplied sequence in their order, all of them when fewer are supplied.
C23_PushShiftsLoadSlices ==
    [][\A s \in Symbols :
          ret'.symbol = s =>
              /\ ret'.op = "push1mCandle" =>
                     PushedOnto(Get(candles1m, s, <<>>), candles1m'[s],
                                ret'.candle, 100)
              /\ ret'.op = "push5mCandle" =>
                     PushedOnto(Get(candles5m, s, <<>>), candles5m'[s],
                                ret'.candle, 80)
              /\ ret'.op = "load1mCandles" =>
                     LoadedFrom(ret'.given, candles1m'[s], 100)
              /\ ret'.op = "load5mCandles" =>
                     LoadedFrom(ret'.given, candles5m'[s], 80)
              /\ ret'.op = "load1hCandles" =>
                     LoadedFrom(ret'.given, candles1h'[s], 100)]_vars

\* A second push onto a 5-minute buffer that was already at capacity, beside
\* a 1-minute buffer loaded from a series one longer than its capacity
C23_Witness ==
    \E s \in DOMAIN candles5m \cap DOMAIN candles1m :
        /\ ret.op = "push5mCandle"
        /\ Len(candles5m[s]) = CAP_5M
        /\ candles5m[s][1] = Bar(CAP_5M - 3)
        /\ Last(candles5m[s]) = ret.candle
        /\ candles1m[s] = Feed(CAP_1M)

\* C24: get5mTrend returns BEARISH exactly when the symbol has at least 55
\* 5-minute candles, the library answered, EMA9 < EMA21 < EMA50, the last
\* close is below EMA9 and ADX >= 25; otherwise (a library failure included)
\* it returns NEUTRAL; it never returns anything else.
C24_BearishIffStack ==
    ret.op = "get5mTrend" =>
        LET c5 == Get(candles5m, ret.symbol, <<>>)
            lib == ret.lib
        IN  /\ ret.trend5m \in {"BEARISH", "NEUTRAL"}
            /\ ret.trend5m = "BEARISH" <=>
                   /\ Len(c5) >= 55
                   /\ lib.ok
                   /\ lib.e9 < lib.e21
                   /\ lib.e21 < lib.e50
                   /\ Last(c5).close < lib.e9
                   /\ lib.adx >= 25

\* BEARISH on the threshold ADX of 25
C24_Witness ==
    /\ ret.op = "get5mTrend"
    /\ ret.trend5m = "BEARISH"
    /\ ret.lib.adx = 25

\* Everything the engine holds for one symbol
PerSymbol(s) ==
    << s \in DOMAIN candles1m, Get(candles1m, s, <<>>),
       s \in DOMAIN candles5m, Get(candles5m, s, <<>>),
       s \in DOMAIN candles1h, Get(candles1h, s, <<>>),
       s \in DOMAIN openTrade, Get(openTrade, s, Null),
       s \in DOMAIN lastSignalTs, Get(lastSignalTs, s, 0),
       s \in DOMAIN stats.bySymbol,
       Get(stats.bySymbol, s, [wins |-> 0, losses |-> 0, totalR |-> 0]) >>

\* C25: a load, push, generateSignal or resolveOpenTrade call for one symbol
\* leaves every other symbol's candle buffers, open trade, last-signal
\* timestamp and per-symbol stats as they were.
C25_OtherSymbolUntouched ==
    [][\A a \in Pair : \A b \in Pair \ {a} :
          ret'.symbol = a => PerSymbol(b)' = PerSymbol(b)]_vars

\* A call for one symbol closes its trade while the other symbol has an open
\* trade, a closed trade in its stats and all three buffers
C25_Witness ==
    \E b \in Pair :
        /\ ret.op = "resolveOpenTrade"
        /\ ret.action \in Outcomes
        /\ ret.symbol # b
        /\ Open(b)
        /\ b \in DOMAIN stats.bySymbol
        /\ stats.bySymbol[b].wins + stats.bySymbol[b].losses > 0
        /\ b \in DOMAIN candles5m
        /\ b \in DOMAIN candles1h

\* The sum of the per-symbol running totals of R
RECURSIVE SumTotalR(_)
SumTotalR(S) ==
    IF S = {} THEN 0
    ELSE LET s == CHOOSE x \in S : TRUE
         IN  stats.bySymbol[s].totalR + SumTotalR(S \ {s})

\* C26: in every reachable state the global totalR equals the sum of the
\* per-symbol totalR over all symbols.
C26_TotalRIsSumOfSymbols ==
    stats.totalR = SumTotalR(DOMAIN stats.bySymbol)

\* C27: a resolveOpenTrade call for a symbol whose open trade is at least 20
\* minutes old returns an outcome (LOSS, WIN or EXPIRED) and leaves the
\* symbol with no open trade, so no trade stays open past the first resolve
\* call at age >= 20 minutes.
C27_ClosedAtMaxHold ==
    [][\A s \in Symbols :
          (/\ Open(s)
           /\ now - openTrade[s].openTime >= 20 * 60000
           /\ ret'.op = "resolveOpenTrade"
           /\ ret'.symbol = s)
              => /\ ret'.action \in Outcomes
                 /\ ~Open(s)']_vars

====
